---- MODULE Spec2Model ----
(***************************************************************************)
(* VEXOR dashboard (src/index.tsx, lines 1-1139): the project collection   *)
(* kept by the Dashboard component, the three tool views (SparringView,    *)
(* ArchitectView, StudioView) with their local React state, their          *)
(* debounced-save timers and their calls to the model service.             *)
(*                                                                         *)
(* One action of the model is one event-loop task of the program: a user   *)
(* event handler, a timer callback or the continuation of an awaited call, *)
(* together with the React re-render and the effects that the task's state *)
(* updates cause (sync effect, debounced-save effect, persist effect).     *)
(*                                                                         *)
(* Time is ordinal: now is the value of Date.now(); Tick lets the clock    *)
(* advance by some positive amount.  A setTimeout(.., 1000) callback can   *)
(* only run after the clock has advanced by the whole delay since it was   *)
(* armed, which Tick records by turning an "armed" timer into a "due" one. *)
(***************************************************************************)
EXTENDS Integers, Sequences, FiniteSets, TLC

\* ---------------------------------------------------------------- bounds
MaxTime     == 2    \* the clock runs over 0..MaxTime
MaxProjects == 2    \* projects in the collection
MaxMsgs     == 3    \* length of a studio transcript
MaxCalls    == 2    \* model calls in flight

\* ------------------------------------------------------- value domains
NULL == "null"

\* PERSONALITIES (ids), restricted to the first two entries
PERSONALITIES == <<"engineer", "reviewer">>

\* MODELS (ids), restricted to the first two entries
MODELS == <<"gemini-2.5-flash", "gemini-2.5-flash-lite-preview">>

\* texts the user can type into the code editor
Codes == {"// Start coding...", "const x = 1;"}

\* texts the user can type into a prompt / idea textarea or the name field
Inputs == {"", " ", "a"}

\* texts the user can type into the system-instruction textarea
Instructions == {"", "s"}

\* a temperature slider without its max
TemperaturesNoMax == {0, 10, 30}

\* values of the temperature slider, in tenths (min 0, max 2, step 0.1): its
\* two ends and the default
Temperatures == {0, 10, 20}

\* result.text of a model reply
ReplyTexts == {"", "R"}

\* res.text of a blueprint reply: empty, a JSON document, not JSON
ArchTexts == {"", "{bp}", "garbage"}

\* String.prototype.trim on the strings of Inputs
Trim(s) == IF s = " " THEN "" ELSE s

\* JSON.parse on the strings of ArchTexts: "throw" stands for a SyntaxError
JSONparse(text) == IF text = "{bp}" THEN "bp" ELSE "throw"

DEFAULT_SETTINGS ==
    [model |-> "gemini-2.5-flash", temperature |-> 10, topP |-> 95,
     topK |-> 64, maxOutputTokens |-> 8192, systemInstruction |-> ""]

DEFAULT_PROJECT_DATA ==
    [sparring  |-> [code |-> "// Start coding...", output |-> "",
                    personalityId |-> "engineer"],
     studio    |-> [messages |-> <<>>, input |-> "",
                    settings |-> DEFAULT_SETTINGS],
     architect |-> [input |-> "", result |-> NULL]]

\* PERSONALITIES.find(p => p.id === id) || PERSONALITIES[0]
FindPersonality(id) ==
    IF \E i \in DOMAIN PERSONALITIES : PERSONALITIES[i] = id
    THEN id ELSE PERSONALITIES[1]

Tools == {"sparring", "studio", "architect"}
ViewMode == {"home"} \cup Tools

\* projects.slice(0, 3) in DashboardHome
RecentProjects == 3

VARIABLES
    screen,                \* App: 'landing' | 'dashboard'
    ai,                    \* whether getAI() returns a client
    now,                   \* Date.now()
    storage,               \* localStorage['vexor_projects']
    view,                  \* Dashboard: view
    projects,              \* Dashboard: projects
    currentProjectId,      \* Dashboard: currentProjectId
    isNewProjectModalOpen, \* Dashboard: isNewProjectModalOpen
    newProjectName,        \* Dashboard: newProjectName
    isProjectMenuOpen,     \* Dashboard: isProjectMenuOpen
    buf,                   \* local state of the mounted tool view
    timer,                 \* the mounted view's debounced-save timeout
    calls,                 \* model calls in flight, with their closures
    burst                  \* history: edits and debounced commits of the view

dash == <<view, projects, currentProjectId, isNewProjectModalOpen,
          newProjectName, isProjectMenuOpen>>

vars == <<screen, ai, now, storage, view, projects, currentProjectId,
          isNewProjectModalOpen, newProjectName, isProjectMenuOpen,
          buf, timer, calls, burst>>

\* ------------------------------------------------------------- helpers
Min(a, b) == IF a < b THEN a ELSE b

\* Date.now().toString()
IdOf(t) == ToString(t)

\* the place of p in s for Array.prototype.sort((a,b) => b.lastModified -
\* a.lastModified), which is stable: before the first element not newer
InsertDesc(p, s) ==
    LET k == IF \E i \in DOMAIN s : s[i].lastModified <= p.lastModified
             THEN CHOOSE i \in DOMAIN s :
                      /\ s[i].lastModified <= p.lastModified
                      /\ \A j \in 1..(i-1) : s[j].lastModified > p.lastModified
             ELSE Len(s) + 1
    IN  SubSeq(s, 1, k-1) \o <<p>> \o SubSeq(s, k, Len(s))

\* a sort that is not one: the array turned around
SortReversed(s) == [i \in 1..Len(s) |-> s[Len(s) + 1 - i]]

RECURSIVE SortDesc(_)
SortDesc(s) == IF s = <<>> THEN <<>> ELSE InsertDesc(Head(s), SortDesc(Tail(s)))

\* localStorage: getItem returns null for an absent key (has = FALSE);
\* setItem throws a QuotaExceededError while the origin's quota is used up
\* (full = TRUE)
NoItem == [has |-> FALSE, json |-> <<>>, full |-> FALSE]

\* a serialisation that loses the projects
StringifyNothing(ps) == [has |-> TRUE, json |-> <<>>, full |-> FALSE]

\* JSON.stringify(projects), as setItem stores it / JSON.parse(saved)
Stringify(ps) == [has |-> TRUE, json |-> ps, full |-> FALSE]
ParseProjects(saved) == saved.json

\* projects.find(p => p.id === currentProjectId), where it is defined
HasProject(ps, cur) == cur # NULL /\ \E i \in DOMAIN ps : ps[i].id = cur
currentProject(ps, cur) ==
    ps[CHOOSE i \in DOMAIN ps :
            /\ ps[i].id = cur
            /\ \A j \in 1..(i-1) : ps[j].id # cur]

\* an update that leaves lastModified as it was
updateNoStamp(ps, cur, section, data, t) ==
    IF cur = NULL THEN ps
    ELSE [i \in DOMAIN ps |->
            IF ps[i].id = cur THEN [ps[i] EXCEPT !.data[section] = data]
            ELSE ps[i]]

\* setProjects(prev => prev.map(...)) of updateCurrentProject, with the
\* currentProjectId of the closure that calls it
updateCurrentProject(ps, cur, section, data, t) ==
    IF cur = NULL THEN ps
    ELSE [i \in DOMAIN ps |->
            IF ps[i].id = cur
            THEN [ps[i] EXCEPT !.lastModified = t, !.data[section] = data]
            ELSE ps[i]]

\* ------------------------------------------------------ the tool views
\* no tool view is mounted
NoBuf == [kind |-> "none", pid |-> NULL]

\* useState(data...) of a view mounted with key pid.  A ...Ref field tells
\* whether the local value is the very object the data prop holds (=== / !==
\* on arrays and objects compares references)
InitBuf(kind, pid, data) ==
    CASE kind = "sparring" ->
           [kind |-> kind, pid |-> pid, loading |-> FALSE,
            code |-> data.code, output |-> data.output,
            personalityId |-> FindPersonality(data.personalityId)]
      [] kind = "studio" ->
           [kind |-> kind, pid |-> pid, loading |-> FALSE,
            messages |-> data.messages, input |-> data.input,
            settings |-> data.settings,
            messagesRef |-> TRUE, settingsRef |-> TRUE]
      [] kind = "architect" ->
           [kind |-> kind, pid |-> pid, loading |-> FALSE,
            input |-> data.input, result |-> data.result,
            resultRef |-> TRUE]

\* the "sync local state" effect, run when the data prop is a new object
SyncBuf(b, data) ==
    [InitBuf(b.kind, b.pid, data) EXCEPT !.loading = b.loading]

\* a debounced-save callback without its condition
DiffersAlways(b, data) == TRUE

\* the condition of the debounced-save callback
Differs(b, data) ==
    CASE b.kind = "sparring" ->
           \/ b.code # data.code
           \/ b.output # data.output
           \/ b.personalityId # data.personalityId
      [] b.kind = "studio" ->
           b.input # data.input \/ ~b.messagesRef \/ ~b.settingsRef
      [] b.kind = "architect" ->
           b.input # data.input \/ ~b.resultRef

\* the object the debounced-save callback passes to onUpdate
Payload(b) ==
    CASE b.kind = "sparring" ->
           [code |-> b.code, output |-> b.output,
            personalityId |-> b.personalityId]
      [] b.kind = "studio" ->
           [messages |-> b.messages, input |-> b.input,
            settings |-> b.settings]
      [] b.kind = "architect" ->
           [input |-> b.input, result |-> b.result]

\* ------------------------------------------------------------ rendering
NoMount == [kind |-> "none", key |-> NULL]

\* the tool view the Dashboard's view routing renders, with its key
MountOf(scr, v, ps, cur) ==
    IF scr = "dashboard" /\ v # "home" /\ HasProject(ps, cur)
    THEN [kind |-> v, key |-> cur]
    ELSE NoMount

\* view routing without the key prop
RemountsNoKey(old, new) == old.kind # new.kind

\* React keeps a component instance while its slot and its key stay the same
Remounts(old, new) == old # new

\* history of the mounted view's edits, kept by the specifications that
\* observe it (Unobserved otherwise).  n: the user's edits (counted up to 2)
\* since the view was mounted, since a Run, or since the program last set
\* the view's state; last: the payload after the last edit; differs: whether
\* it then differed from the stored payload; lm: the project's lastModified
\* then; fired: whether the timer has fired since; calls: the debounced
\* onUpdate calls made since; disturbed: whether the program has set the
\* view's state or the stored section since
NoBurst == [n |-> 0]
Unobserved == [n |-> -1]


\* an effect cleanup that leaves its timeout pending
keepTimeout(tm) == tm

\* return () => clearTimeout(timer): the pending timeout is cancelled
clearTimeout(tm) == "idle"

\* setTimeout(..., 1000): a timeout is pending; one that was pending before
\* and was not cancelled is still the first to fire
setTimeout(tm) == IF tm = "idle" THEN "armed" ELSE tm

\* setItem replaces the item: a value that is the stored one with its entries
\* in another order is as long as the stored one, and fits a used-up quota
FitsQuota(ps, item) ==
    /\ item.has
    /\ Len(ps) = Len(item.json)
    /\ \A i \in DOMAIN ps : \E j \in DOMAIN item.json : ps[i] = item.json[j]
    /\ \A j \in DOMAIN item.json : \E i \in DOMAIN ps : ps[i] = item.json[j]

\* The "persist projects" effect throws and no error boundary catches it:
\* React unmounts the whole tree, and the state of its components is gone
Crash(cs2) ==
    /\ screen' = "crashed"
    /\ view' = "home"
    /\ projects' = <<>>
    /\ currentProjectId' = NULL
    /\ isNewProjectModalOpen' = FALSE
    /\ newProjectName' = ""
    /\ isProjectMenuOpen' = FALSE
    /\ buf' = NoBuf
    /\ timer' = "idle"
    /\ calls' = [i \in DOMAIN cs2 |-> [cs2[i] EXCEPT !.scope = "gone"]]
    /\ burst' = IF burst = Unobserved THEN Unobserved ELSE NoBurst
    /\ storage' = storage

\* The re-render and the effects that follow a task which left the Dashboard
\* state <<v2, ps2, cur2, modal2, name2, menu2>>, the view state b2 and the
\* calls cs2.  setP: setProjects was called (the array is a new one);
\* replaced: the section objects [pid, section] that are new ones.
Render(scr2, v2, ps2, cur2, modal2, name2, menu2, b2, cs2, br2, setP, replaced) ==
    LET old      == [kind |-> buf.kind, key |-> buf.pid]
        new      == MountOf(scr2, v2, ps2, cur2)
        remount  == Remounts(old, new)
        dashDone == <<v2, ps2, cur2, modal2, name2, menu2>> # dash \/ setP
        \* projects.sort(...) in the project menu and in DashboardHome
        sorts    == dashDone /\ (menu2 \/ (v2 = "home" /\ Len(ps2) > 0))
        psR      == IF sorts THEN SortDesc(ps2) ELSE ps2
        data     == currentProject(ps2, cur2).data[new.kind]
    IN  IF setP /\ Len(psR) > 0 /\ storage.full /\ ~FitsQuota(psR, storage)
        THEN Crash(cs2)
        ELSE
        /\ screen' = scr2
        /\ view' = v2
        /\ projects' = psR
        /\ currentProjectId' = cur2
        /\ isNewProjectModalOpen' = modal2
        /\ newProjectName' = name2
        /\ isProjectMenuOpen' = menu2
        /\ buf' = IF new.kind = "none" THEN NoBuf
                  ELSE IF remount THEN InitBuf(new.kind, new.key, data)
                  ELSE IF [pid |-> new.key, section |-> new.kind] \in replaced
                       THEN SyncBuf(b2, data)
                  ELSE b2
        \* the cleanup of the "debounced save" effect, and its next run
        /\ timer' = IF new.kind = "none" THEN clearTimeout(timer)
                    ELSE IF remount \/ dashDone \/ b2 # buf
                         THEN setTimeout(clearTimeout(timer))
                    ELSE timer
        /\ calls' = IF remount
                    THEN [i \in DOMAIN cs2 |->
                            IF cs2[i].scope = "view"
                            THEN [cs2[i] EXCEPT !.scope = "dash"]
                            ELSE cs2[i]]
                    ELSE cs2
        /\ burst' = IF burst = Unobserved THEN Unobserved
                    ELSE IF remount \/ new.kind = "none" THEN NoBurst ELSE br2
        \* the "persist projects" effect
        /\ storage' = IF setP /\ Len(psR) > 0
                      THEN [Stringify(psR) EXCEPT !.full = storage.full]
                      ELSE storage

\* a task of the Dashboard that leaves the view's own state alone
DashRender(v2, ps2, cur2, modal2, name2, menu2, setP) ==
    Render("dashboard", v2, ps2, cur2, modal2, name2, menu2, buf, calls,
           burst, setP, {})

\* a task of the mounted view that leaves the Dashboard's state alone
ViewRender(b2, cs2, br2) ==
    Render("dashboard", view, projects, currentProjectId,
           isNewProjectModalOpen, newProjectName, isProjectMenuOpen,
           b2, cs2, br2, FALSE, {})

\* the stored section the mounted view gets as its data prop
Data == currentProject(projects, currentProjectId).data[buf.kind]

\* the history after an edit that leaves the view's state b2
EditBurst(b2) ==
    IF burst = Unobserved THEN Unobserved
    ELSE [n |-> IF burst.n > 0 /\ ~burst.disturbed /\ ~burst.fired
                THEN Min(burst.n + 1, 2) ELSE 1,
          fired |-> FALSE, calls |-> 0, differs |-> Payload(b2) # Data, last |-> Payload(b2),
          lm |-> currentProject(projects, currentProjectId).lastModified,
          disturbed |-> FALSE]

\* the history after the program has set the view's state or its section
Disturbed ==
    IF burst.n > 0 THEN [burst EXCEPT !.disturbed = TRUE] ELSE burst

\* the history after the timer has fired and made n onUpdate calls
Fired(n) ==
    IF burst.n > 0 THEN [burst EXCEPT !.calls = @ + n, !.fired = TRUE]
    ELSE burst

\* a settled call that is issued once more instead of leaving the calls in
\* flight
RetryCall(s, i) == s

\* the sequence without its i-th element: the calls in flight once the i-th
\* has settled
Remove(s, i) == SubSeq(s, 1, i-1) \o SubSeq(s, i+1, Len(s))

\* ------------------------------------------------------------ App, clock
InitProgram ==
    /\ screen = "landing"
    /\ ai \in BOOLEAN
    /\ now = 0
    /\ storage = NoItem
    /\ view = "home"
    /\ projects = <<>>
    /\ currentProjectId = NULL
    /\ isNewProjectModalOpen = FALSE
    /\ newProjectName = ""
    /\ isProjectMenuOpen = FALSE
    /\ buf = NoBuf
    /\ timer = "idle"
    /\ calls = <<>>

Init == InitProgram /\ burst = Unobserved

InitObserved == InitProgram /\ burst = NoBurst

\* The clock advances.  quiet: by at least the delay of the pending timeout
Tick ==
    /\ now < MaxTime
    /\ now' = now + 1
    /\ \E quiet \in BOOLEAN :
          timer' = IF timer = "armed" /\ quiet THEN "due" ELSE timer
    /\ UNCHANGED <<screen, ai, storage, view, projects, currentProjectId,
                   isNewProjectModalOpen, newProjectName, isProjectMenuOpen,
                   buf, calls, burst>>

\* the rest of the origin's localStorage quota gets used up (by another
\* key, or by another tab of the origin)
storageFills ==
    /\ ~storage.full
    /\ storage' = [storage EXCEPT !.full = TRUE]
    /\ UNCHANGED <<screen, ai, now, view, projects, currentProjectId,
                   isNewProjectModalOpen, newProjectName, isProjectMenuOpen,
                   buf, timer, calls, burst>>

\* the first entry of the record as it was stored
firstStored(parsed) == parsed[1]

\* parsed.sort((a, b) => b.lastModified - a.lastModified)[0]
mostRecent(parsed) == SortDesc(parsed)[1]

\* onLaunch: the Dashboard mounts and its "load projects" effect runs
onLaunch ==
    /\ screen = "landing"
    /\ LET parsed == ParseProjects(storage)
           sorted == SortDesc(parsed)
       IN  IF storage.has
           THEN Render("dashboard", "home", sorted,
                       IF Len(parsed) > 0 THEN mostRecent(parsed).id ELSE NULL,
                       FALSE, "", FALSE, NoBuf, calls, NoBurst, TRUE, {})
           ELSE Render("dashboard", "home", <<>>, NULL,
                       FALSE, "", FALSE, NoBuf, calls, NoBurst, FALSE, {})
    /\ UNCHANGED <<ai, now>>

\* onBack: the Dashboard unmounts, and with it the mounted view
onBack ==
    /\ screen = "dashboard"
    /\ screen' = "landing"
    /\ view' = "home"
    /\ projects' = <<>>
    /\ currentProjectId' = NULL
    /\ isNewProjectModalOpen' = FALSE
    /\ newProjectName' = ""
    /\ isProjectMenuOpen' = FALSE
    /\ buf' = NoBuf
    /\ timer' = "idle"
    /\ calls' = [i \in DOMAIN calls |-> [calls[i] EXCEPT !.scope = "gone"]]
    /\ burst' = IF burst = Unobserved THEN Unobserved ELSE NoBurst
    /\ UNCHANGED <<ai, now, storage>>

\* ------------------------------------------------------------ Dashboard
\* sidebar buttons and DashboardHome cards: setView(v)
setView(v) ==
    /\ screen = "dashboard"
    /\ v # view
    /\ DashRender(v, projects, currentProjectId, isNewProjectModalOpen,
                  newProjectName, isProjectMenuOpen, FALSE)
    /\ UNCHANGED <<ai, now>>

\* header click: setIsProjectMenuOpen(!isProjectMenuOpen)
toggleProjectMenu ==
    /\ screen = "dashboard"
    /\ DashRender(view, projects, currentProjectId, isNewProjectModalOpen,
                  newProjectName, ~isProjectMenuOpen, FALSE)
    /\ UNCHANGED <<ai, now>>

\* "New Project" in the project menu, in DashboardHome, or "Create Project"
\* of the no-project placeholder
openNewProjectModal ==
    /\ screen = "dashboard"
    /\ ~isNewProjectModalOpen
    /\ \/ /\ isProjectMenuOpen
          /\ DashRender(view, projects, currentProjectId, TRUE,
                        newProjectName, FALSE, FALSE)
       \/ /\ view = "home" \/ ~HasProject(projects, currentProjectId)
          /\ DashRender(view, projects, currentProjectId, TRUE,
                        newProjectName, isProjectMenuOpen, FALSE)
    /\ UNCHANGED <<ai, now>>

\* "Cancel" in the modal
cancelNewProjectModal ==
    /\ screen = "dashboard"
    /\ isNewProjectModalOpen
    /\ DashRender(view, projects, currentProjectId, FALSE,
                  newProjectName, isProjectMenuOpen, FALSE)
    /\ UNCHANGED <<ai, now>>

\* the modal's name field: setNewProjectName(e.target.value)
setNewProjectName(name) ==
    /\ screen = "dashboard"
    /\ isNewProjectModalOpen
    /\ name # newProjectName
    /\ DashRender(view, projects, currentProjectId, isNewProjectModalOpen,
                  name, isProjectMenuOpen, FALSE)
    /\ UNCHANGED <<ai, now>>

\* a project built without the default template
NewProjectBlank(name, t) ==
    [id |-> IdOf(t), name |-> name, lastModified |-> t,
     data |-> [DEFAULT_PROJECT_DATA EXCEPT !.sparring.code = ""]]

\* the project handleCreateProject builds
NewProject(name, t) ==
    [id |-> IdOf(t), name |-> name, lastModified |-> t,
     data |-> DEFAULT_PROJECT_DATA]

\* "Create" or Enter in the modal
handleCreateProject ==
    /\ screen = "dashboard"
    /\ isNewProjectModalOpen
    /\ Len(projects) < MaxProjects
    /\ IF Trim(newProjectName) = ""
       THEN UNCHANGED <<screen, storage, view, projects, currentProjectId,
                           isNewProjectModalOpen, newProjectName,
                           isProjectMenuOpen, buf, timer, calls, burst>>
       ELSE /\ DashRender("sparring",
                          Append(projects, NewProject(newProjectName, now)),
                          IdOf(now), FALSE, "", isProjectMenuOpen, TRUE)
    /\ UNCHANGED <<ai, now>>

\* a project button of the project menu
selectFromMenu(i) ==
    /\ screen = "dashboard"
    /\ isProjectMenuOpen
    /\ i \in DOMAIN projects
    /\ DashRender(view, projects, projects[i].id, isNewProjectModalOpen,
                  newProjectName, FALSE, FALSE)
    /\ UNCHANGED <<ai, now>>

\* a card of DashboardHome's recent projects: onSelectProject(id)
onSelectProject(i) ==
    /\ screen = "dashboard"
    /\ view = "home"
    /\ ~isNewProjectModalOpen
    /\ i \in 1..Min(RecentProjects, Len(projects))
    /\ DashRender("sparring", projects, projects[i].id,
                  isNewProjectModalOpen, newProjectName, isProjectMenuOpen,
                  FALSE)
    /\ UNCHANGED <<ai, now>>

\* ------------------------------------------------- debounced-save timer
\* the setTimeout callback of the mounted view's "debounced save" effect
TimerFire ==
    /\ timer = "due"
    /\ IF Differs(buf, Data)
       THEN /\ Render("dashboard", view,
                      updateCurrentProject(projects, currentProjectId,
                                           buf.kind, Payload(buf), now),
                      currentProjectId, isNewProjectModalOpen,
                      newProjectName, isProjectMenuOpen, buf, calls,
                      Fired(1), TRUE,
                      {[pid |-> currentProjectId, section |-> buf.kind]})
       ELSE /\ timer' = "idle"
            /\ burst' = Fired(0)
            /\ UNCHANGED <<screen, storage, view, projects, currentProjectId,
                           isNewProjectModalOpen, newProjectName,
                           isProjectMenuOpen, buf, calls>>
    /\ UNCHANGED <<ai, now>>

\* a handler that ends without clearing the loading flag
finallyMissing(b) == b

\* finally { setLoading(false); } of handleAction, generateArchitecture and
\* handleRun
finally(b) == [b EXCEPT !.loading = FALSE]

\* ---------------------------------------------------------- SparringView
\* the tool views are under the modal's overlay while it is open
Editing(kind) ==
    /\ screen = "dashboard"
    /\ buf.kind = kind
    /\ ~isNewProjectModalOpen

\* Editor onChange: setCode(val || '')
setCode(c) ==
    /\ Editing("sparring")
    /\ c # buf.code
    /\ LET b2 == [buf EXCEPT !.code = c]
       IN  ViewRender(b2, calls, EditBurst(b2))
    /\ UNCHANGED <<ai, now>>

\* the persona select: setPersonality(PERSONALITIES.find(...) || ...[0])
setPersonality(id) ==
    /\ Editing("sparring")
    /\ FindPersonality(id) # buf.personalityId
    /\ LET b2 == [buf EXCEPT !.personalityId = FindPersonality(id)]
       IN  ViewRender(b2, calls, EditBurst(b2))
    /\ UNCHANGED <<ai, now>>

\* an action button: handleAction, up to the await
handleAction ==
    /\ Editing("sparring")
    /\ ~buf.loading
    /\ IF ~ai
       THEN /\ ViewRender([buf EXCEPT !.output =
                   "Error: API Key missing. Please reload to enter key."],
                   calls, Disturbed)
       ELSE /\ Len(calls) < MaxCalls
            /\ ViewRender([buf EXCEPT !.loading = TRUE],
                   Append(calls, [tool |-> "sparring", pid |-> currentProjectId,
                                  scope |-> "view"]),
                   burst)
    /\ UNCHANGED <<ai, now>>

\* what handleAction puts into output when generateContent settles
SparringOutput(ok, text) ==
    IF ok THEN (IF text = "" THEN "No response generated." ELSE text)
    ELSE "Error: E"

\* handleAction, from the await on: the call settles (ok: it resolves with
\* result.text = text, otherwise it rejects with e.message = "E")
handleActionSettled(i, ok, text) ==
    /\ i \in DOMAIN calls
    /\ calls[i].tool = "sparring"
    /\ IF calls[i].scope = "view"
       THEN ViewRender(finally([buf EXCEPT !.output = SparringOutput(ok, text)]),
                       Remove(calls, i), Disturbed)
       ELSE /\ calls' = Remove(calls, i)
            /\ UNCHANGED <<screen, storage, view, projects, currentProjectId,
                           isNewProjectModalOpen, newProjectName,
                           isProjectMenuOpen, buf, timer, burst>>
    /\ UNCHANGED <<ai, now>>

\* ------------------------------------------------------------ StudioView
\* the prompt textarea: setInput(e.target.value)
setStudioInput(text) ==
    /\ Editing("studio")
    /\ text # buf.input
    /\ LET b2 == [buf EXCEPT !.input = text]
       IN  ViewRender(b2, calls, EditBurst(b2))
    /\ UNCHANGED <<ai, now>>

\* the settings panel: setSettings({...settings, [field]: value})
setSettings(field, value) ==
    /\ Editing("studio")
    /\ value # buf.settings[field]
    /\ LET b2 == [buf EXCEPT !.settings[field] = value, !.settingsRef = FALSE]
       IN  ViewRender(b2, calls, EditBurst(b2))
    /\ UNCHANGED <<ai, now>>

UserMessage(text) == [role |-> "user", text |-> text, error |-> FALSE]
ModelMessage(text) == [role |-> "model", text |-> text, error |-> FALSE]
ErrorMessage(text) == [role |-> "model", text |-> text, error |-> TRUE]

\* newMsgs of handleRun: if (input) newMsgs.push({role: 'user', text: input})
NewMsgs(messages, input) ==
    IF input # "" THEN Append(messages, UserMessage(input)) ELSE messages

\* handleRun, up to the await.  byKey: by Ctrl/Cmd+Enter in the prompt (the
\* Run button is disabled while loading)
handleRun(byKey) ==
    /\ Editing("studio")
    /\ byKey \/ ~buf.loading
    /\ Len(buf.messages) + 2 <= MaxMsgs
    /\ IF Trim(buf.input) = "" /\ Len(buf.messages) = 0
       THEN UNCHANGED <<screen, storage, view, projects, currentProjectId,
                        isNewProjectModalOpen, newProjectName,
                        isProjectMenuOpen, buf, timer, calls, burst>>
       ELSE LET newMsgs == NewMsgs(buf.messages, buf.input)
                b2 == [buf EXCEPT !.messages = newMsgs, !.messagesRef = FALSE,
                                  !.input = ""]
            IN  IF ~ai
                THEN ViewRender(
                       [b2 EXCEPT !.messages = Append(newMsgs,
                           ErrorMessage("API Key Missing. Please reload."))],
                       calls,
                       IF burst = Unobserved THEN burst ELSE NoBurst)
                ELSE /\ Len(calls) < MaxCalls
                     /\ ViewRender(
                          [b2 EXCEPT !.loading = TRUE],
                          Append(calls,
                                 [tool |-> "studio", pid |-> currentProjectId,
                                  scope |-> "view", history |-> buf.messages,
                                  message |-> buf.input,
                                  settings |-> buf.settings]),
                          IF burst = Unobserved THEN burst ELSE NoBurst)
    /\ UNCHANGED <<ai, now>>

\* a handleRun without its immediate onUpdate
handleRunNoUpdate(ps, c, updatedMsgs, t) == ps

\* the immediate onUpdate of handleRun, through the updateCurrentProject of
\* the render whose handleRun made the call c
handleRunOnUpdate(ps, c, updatedMsgs, t) ==
    updateCurrentProject(ps, c.pid, "studio",
        [messages |-> updatedMsgs, input |-> "", settings |-> c.settings], t)

\* handleRun, from the await on: sendMessage settles (ok: it resolves with
\* result.text = text, otherwise it rejects)
handleRunSettled(i, ok, text) ==
    /\ i \in DOMAIN calls
    /\ calls[i].tool = "studio"
    /\ LET c == calls[i]
           newMsgs == NewMsgs(c.history, c.message)
           updatedMsgs == Append(newMsgs, ModelMessage(text))
       IN  IF c.scope = "gone"
           THEN /\ calls' = Remove(calls, i)
                /\ UNCHANGED <<screen, storage, view, projects,
                               currentProjectId, isNewProjectModalOpen,
                               newProjectName, isProjectMenuOpen, buf, timer,
                               burst>>
           ELSE IF ok
           THEN Render("dashboard", view,
                       handleRunOnUpdate(projects, c, updatedMsgs, now),
                       currentProjectId, isNewProjectModalOpen,
                       newProjectName, isProjectMenuOpen,
                       IF c.scope = "view"
                       THEN finally([buf EXCEPT !.messages = updatedMsgs,
                                                !.messagesRef = FALSE])
                       ELSE buf,
                       Remove(calls, i),
                       IF c.pid = currentProjectId /\ buf.kind = "studio"
                       THEN Disturbed ELSE burst,
                       TRUE, {[pid |-> c.pid, section |-> "studio"]})
           ELSE IF c.scope = "view"
           THEN ViewRender(finally([buf EXCEPT !.messages =
                                   Append(newMsgs, ErrorMessage("Error.")),
                                 !.messagesRef = FALSE]),
                           Remove(calls, i), Disturbed)
           ELSE /\ calls' = Remove(calls, i)
                /\ UNCHANGED <<screen, storage, view, projects,
                               currentProjectId, isNewProjectModalOpen,
                               newProjectName, isProjectMenuOpen, buf, timer,
                               burst>>
    /\ UNCHANGED <<ai, now>>

\* --------------------------------------------------------- ArchitectView
\* the idea textarea: setInput(e.target.value)
setArchitectInput(text) ==
    /\ Editing("architect")
    /\ text # buf.input
    /\ LET b2 == [buf EXCEPT !.input = text]
       IN  ViewRender(b2, calls, EditBurst(b2))
    /\ UNCHANGED <<ai, now>>

\* "Generate Blueprint" (disabled={loading || !input}): generateArchitecture,
\* up to the await
generateArchitecture ==
    /\ Editing("architect")
    /\ ~buf.loading /\ buf.input # ""
    /\ IF Trim(buf.input) = "" \/ ~ai
       THEN UNCHANGED <<screen, storage, view, projects, currentProjectId,
                        isNewProjectModalOpen, newProjectName,
                        isProjectMenuOpen, buf, timer, calls, burst>>
       ELSE /\ Len(calls) < MaxCalls
            /\ ViewRender([buf EXCEPT !.loading = TRUE],
                   Append(calls, [tool |-> "architect",
                                  pid |-> currentProjectId, scope |-> "view"]),
                   burst)
    /\ UNCHANGED <<ai, now>>

\* generateArchitecture, from the await on: generateContent settles (ok: it
\* resolves with res.text = text, otherwise it rejects)
generateArchitectureSettled(i, ok, text) ==
    /\ i \in DOMAIN calls
    /\ calls[i].tool = "architect"
    /\ IF calls[i].scope = "view"
       THEN IF ok /\ text # "" /\ JSONparse(text) # "throw"
            THEN ViewRender(finally([buf EXCEPT !.result = JSONparse(text),
                                                !.resultRef = FALSE]),
                            Remove(calls, i), Disturbed)
            ELSE ViewRender(finally(buf), Remove(calls, i), burst)
       ELSE /\ calls' = Remove(calls, i)
            /\ UNCHANGED <<screen, storage, view, projects, currentProjectId,
                           isNewProjectModalOpen, newProjectName,
                           isProjectMenuOpen, buf, timer, burst>>
    /\ UNCHANGED <<ai, now>>

\* ------------------------------------------------------- specifications
PersonalityIds == {PERSONALITIES[i] : i \in DOMAIN PERSONALITIES}

\* the steps of the App, the clock and the Dashboard that every tool's
\* specification takes, with the project names typed into the modal
DashboardNext(names) ==
    \/ Tick
    \/ onLaunch
    \/ toggleProjectMenu
    \/ openNewProjectModal
    \/ \E name \in names : setNewProjectName(name)
    \/ handleCreateProject
    \/ \E i \in 1..MaxProjects : selectFromMenu(i)
    \/ TimerFire

SparringNext ==
    \/ \E c \in Codes : setCode(c)
    \/ \E id \in PersonalityIds : setPersonality(id)
    \/ handleAction
    \/ \E i \in 1..MaxCalls, ok \in BOOLEAN :
          handleActionSettled(i, ok, "R")

\* the Dashboard with the code-sparring tool and its model calls
NextSparring ==
    \/ DashboardNext({"a"})
    \/ \E v \in {"home", "sparring"} : setView(v)
    \/ SparringNext

SpecSparring == Init /\ [][NextSparring]_vars

\* the Dashboard with the studio tool and its model calls, Run pressed by
\* its button
NextStudio ==
    \/ DashboardNext({"a"})
    \/ \E v \in {"home", "studio"} : setView(v)
    \/ \E text \in {"", "a"} : setStudioInput(text)
    \/ handleRun(FALSE)
    \/ \E i \in 1..MaxCalls, ok \in BOOLEAN :
          handleRunSettled(i, ok, "R")

SpecStudio == Init /\ [][NextStudio]_vars

\* a session of the studio tool in which projects are only created and Run
\* is pressed by its button or by Ctrl/Cmd+Enter, with the history of the
\* view's edits
NextStudioSession ==
    \/ Tick
    \/ onLaunch
    \/ openNewProjectModal
    \/ setNewProjectName("a")
    \/ handleCreateProject
    \/ TimerFire
    \/ \E v \in {"home", "studio"} : setView(v)
    \/ \E text \in {"", "a"} : setStudioInput(text)
    \/ \E byKey \in BOOLEAN : handleRun(byKey)
    \/ \E i \in 1..MaxCalls, ok \in BOOLEAN :
          handleRunSettled(i, ok, "R")

SpecStudioSession == InitObserved /\ [][NextStudioSession]_vars

\* the Dashboard with the architect tool and its model calls
NextArchitect ==
    \/ DashboardNext({"a"})
    \/ \E v \in {"home", "architect"} : setView(v)
    \/ \E text \in Inputs : setArchitectInput(text)
    \/ generateArchitecture
    \/ \E i \in 1..MaxCalls, ok \in BOOLEAN, text \in ArchTexts :
          generateArchitectureSettled(i, ok, text)

SpecArchitect == Init /\ [][NextArchitect]_vars

\* the whole of the navigation and the three tools' edits, without model
\* calls, with the history of the view's edits
NextEdits ==
    \/ DashboardNext({"a"})
    \/ cancelNewProjectModal
    \/ \E i \in 1..MaxProjects : onSelectProject(i)
    \/ onBack
    \/ \E v \in ViewMode : setView(v)
    \/ \E c \in Codes : setCode(c)
    \/ \E id \in PersonalityIds : setPersonality(id)
    \/ \E text \in {"", "a"} : setStudioInput(text)
    \/ \E value \in Instructions : setSettings("systemInstruction", value)
    \/ \E text \in {"", "a"} : setArchitectInput(text)

SpecEdits == InitObserved /\ [][NextEdits]_vars

\* the navigation of the Dashboard alone, with several project names
NextProjects ==
    \/ DashboardNext({"", " ", "a", "b"})
    \/ cancelNewProjectModal
    \/ \E i \in 1..MaxProjects : onSelectProject(i)
    \/ onBack
    \/ \E v \in {"home", "sparring"} : setView(v)

SpecProjects == Init /\ [][NextProjects]_vars

\* a session of the sparring tool's edits in which the storage's quota may
\* get used up
NextStorage ==
    \/ Tick
    \/ onLaunch
    \/ onBack
    \/ openNewProjectModal
    \/ setNewProjectName("a")
    \/ handleCreateProject
    \/ TimerFire
    \/ \E c \in Codes : setCode(c)
    \/ storageFills

SpecStorage == Init /\ [][NextStorage]_vars

\* a session of the three tools and their model calls on projects that are
\* only created, within one instant of the clock (no timeout comes due)
NextCalls ==
    \/ onLaunch
    \/ openNewProjectModal
    \/ setNewProjectName("a")
    \/ handleCreateProject
    \/ \E v \in ViewMode : setView(v)
    \/ setStudioInput("a")
    \/ \E text \in {" ", "a"} : setArchitectInput(text)
    \/ handleAction
    \/ \E i \in 1..MaxCalls, ok \in BOOLEAN : handleActionSettled(i, ok, "R")
    \/ \E byKey \in BOOLEAN : handleRun(byKey)
    \/ \E i \in 1..MaxCalls, ok \in BOOLEAN : handleRunSettled(i, ok, "R")
    \/ generateArchitecture
    \/ \E i \in 1..MaxCalls, ok \in BOOLEAN, text \in ArchTexts :
          generateArchitectureSettled(i, ok, text)

SpecCalls == Init /\ [][NextCalls]_vars

\* a session of the studio tool's temperature slider, with the Dashboard
\* left and launched again
NextSettings ==
    \/ Tick
    \/ onLaunch
    \/ onBack
    \/ openNewProjectModal
    \/ setNewProjectName("a")
    \/ handleCreateProject
    \/ TimerFire
    \/ \E v \in {"home", "studio"} : setView(v)
    \/ \E value \in Temperatures : setSettings("temperature", value)

SpecSettings == Init /\ [][NextSettings]_vars

\* ------------------------------------------------------------ properties
\* the stored payload of a section of the project looked up by id
Stored(ps, pid, section) == currentProject(ps, pid).data[section]

\* the place of the current project in the collection
CurrentIndex ==
    CHOOSE i \in DOMAIN projects :
        /\ projects[i].id = currentProjectId
        /\ \A j \in 1..(i-1) : projects[j].id # currentProjectId

\* a task makes another project the current one
Switches ==
    /\ screen = "dashboard" /\ screen' = "dashboard"
    /\ currentProjectId # NULL
    /\ currentProjectId' # currentProjectId

\* the fields of a section's payload that the user types or selects
UserFields(kind, payload) ==
    CASE kind = "sparring"  -> <<payload.code, payload.personalityId>>
      [] kind = "studio"    -> <<payload.input, payload.settings>>
      [] kind = "architect" -> <<payload.input>>

\* C1: an edit of project A's section that is still waiting for the debounce
\* timer when another project becomes current (by selection or by creation)
\* is written to A's stored section by the switch.
C1_FlushOnSwitch ==
    [][(Switches /\ buf.kind # "none" /\ timer # "idle" /\ Differs(buf, Data))
         => Stored(projects', buf.pid, buf.kind) = Payload(buf)]_vars

\* C2: the mounted view always belongs to the current project and tool; when
\* the current project id changes from A to B the view's local copy is
\* initialised from B's stored section; and a debounced onUpdate writes the
\* local values to the project the view was mounted for and changes no
\* project with another id.
C2_NoCrossContamination ==
    /\ [](buf.kind # "none" => buf.pid = currentProjectId /\ buf.kind = view)
    /\ [][(Switches /\ buf'.kind # "none")
            => buf' = InitBuf(buf'.kind, currentProjectId',
                              Stored(projects', currentProjectId', buf'.kind))]_vars
    /\ [][(TimerFire /\ projects' # projects)
            => /\ Stored(projects', buf.pid, buf.kind) = Payload(buf)
               /\ \A i \in DOMAIN projects :
                    projects[i].id # buf.pid
                       => \E j \in DOMAIN projects' : projects'[j] = projects[i]]_vars

\* project A holds a committed edit and the view mounted for the current
\* project B shows B's own untouched code
C2_Witness ==
    /\ buf.kind = "sparring"
    /\ buf.code = "// Start coding..."
    /\ \E a, b \in DOMAIN projects :
         /\ projects[a].id # projects[b].id
         /\ currentProjectId = projects[b].id
         /\ projects[a].data.sparring.code = "const x = 1;"
         /\ projects[b].data.sparring.code = "// Start coding..."

\* C3 (sparring action): when a call made while project A was current
\* returns text after another project has become current, A's stored
\* sparring section holds the text.
C3_LateResult ==
    [][\A i \in DOMAIN calls :
         (/\ handleActionSettled(i, TRUE, "R")
          /\ HasProject(projects, calls[i].pid)
          /\ calls[i].pid # currentProjectId)
            => Stored(projects', calls[i].pid, "sparring").output
                 = SparringOutput(TRUE, "R")]_vars

\* C4 (as stated): after a burst of edits and an undisturbed quiet period
\* exactly one debounced onUpdate call has been made.
C4_ExactlyOne ==
    (burst.n >= 1 /\ ~burst.disturbed /\ burst.fired /\ timer = "idle")
       => burst.calls = 1

\* C4 (amended): a burst of edits that the program does not disturb produces
\* no call before the timer fires and at most one call after it, exactly one
\* when the payload after the last edit differed from the stored payload, and
\* a call leaves the stored payload equal to the payload after the last edit.
C4_Coalesced ==
    (burst.n >= 1 /\ ~burst.disturbed)
       => /\ burst.calls <= 1
          /\ ~burst.fired => burst.calls = 0
          /\ burst.calls = 1 => Data = burst.last
          /\ (burst.fired /\ burst.differs) => burst.calls = 1

\* two edits, one call, and the re-armed timer has fired without a write
C4_Witness ==
    /\ burst.n = 2 /\ ~burst.disturbed
    /\ burst.differs /\ burst.calls = 1
    /\ timer = "idle"

\* C5: a timer that fires while the local copy equals the stored payload
\* leaves the collection (lastModified included) and the storage alone.
C5_NoRedundantWrite ==
    [][(TimerFire /\ Payload(buf) = Data)
         => (projects' = projects /\ storage' = storage)]_vars

\* C6: a debounced onUpdate leaves the other sections of the current
\* project and every other entry of the collection as they were.
C6_Isolation ==
    [][(TimerFire /\ projects' # projects)
         => /\ \A sec \in Tools \ {buf.kind} :
                 Stored(projects', buf.pid, sec) = Stored(projects, buf.pid, sec)
            /\ \A i \in DOMAIN projects \ {CurrentIndex} :
                 \E j \in DOMAIN projects' : projects'[j] = projects[i]]_vars

\* C7: once the timer has fired after the last edit, which made the section
\* differ from the stored payload, and is idle again, the stored section
\* holds what the user typed and selected, and lastModified has increased.
C7_EventualCommit ==
    (burst.n >= 1 /\ burst.differs /\ burst.fired /\ timer = "idle")
       => /\ UserFields(buf.kind, Data) = UserFields(buf.kind, burst.last)
          /\ currentProject(projects, currentProjectId).lastModified > burst.lm

C9_OutputImmediate ==
    [][\A i \in DOMAIN calls :
         (handleActionSettled(i, TRUE, "R") /\ calls[i].scope = "view")
            => /\ Stored(projects', calls[i].pid, "sparring").output = "R"
               /\ storage' = Stringify(projects')]_vars

\* C10: the arrival of a reply in the studio view that made the call leaves
\* the prompt and the settings of the view's local copy as the user has them.
C10_UserEditsWin ==
    [][\A i \in DOMAIN calls :
         (handleRunSettled(i, TRUE, "R") /\ calls[i].scope = "view")
            => /\ buf'.input = buf.input
               /\ buf'.settings = buf.settings]_vars

\* s is the beginning of t
IsPrefix(s, t) == Len(s) <= Len(t) /\ SubSeq(t, 1, Len(s)) = s

\* C11: in every step the stored studio transcript of every project, and
\* the local transcript of a studio view that stays mounted, is the
\* beginning of the transcript after the step.
C11_AppendOnly ==
    [][/\ \A i \in DOMAIN projects :
             IsPrefix(projects[i].data.studio.messages,
                      Stored(projects', projects[i].id, "studio").messages)
       /\ (buf.kind = "studio" /\ buf'.kind = "studio" /\ buf'.pid = buf.pid)
             => IsPrefix(buf.messages, buf'.messages)]_vars

\* C12: loading the collection that was saved last gives an in-memory
\* collection equal to the saved one, in the same order.
C12_RoundTrip ==
    [][(onLaunch /\ storage.has) => projects' = ParseProjects(storage)]_vars

\* C13: a step that writes the collection while the storage's quota is used
\* up leaves the application running and the in-memory collection in place.
C13_SaveFailureLocal ==
    [][(storage.full /\ (handleCreateProject \/ TimerFire \/ onLaunch))
         => (screen' # "crashed" /\ Len(projects') >= Len(projects))]_vars

\* C14: no two projects of the collection have the same id.
C14_UniqueIds ==
    \A i, j \in DOMAIN projects : projects[i].id = projects[j].id => i = j

\* the section keys the claim names, the storefront's among them
FourSections == {"sparring", "studio", "architect", "storefront"}

\* C15 (as stated): every project holds a section payload for each of four
\* tools, the storefront included.
C15_FourSections ==
    \A i \in DOMAIN projects : DOMAIN projects[i].data = FourSections

\* C15 (amended): a created project holds the default payload of each of
\* the three tools, and every project of every state has the three section
\* keys, each with the fields of its template.
C15_Defaults ==
    /\ [](\A i \in DOMAIN projects :
            /\ DOMAIN projects[i].data = Tools
            /\ \A sec \in Tools :
                 DOMAIN projects[i].data[sec] = DOMAIN DEFAULT_PROJECT_DATA[sec])
    /\ [][(handleCreateProject /\ projects' # projects)
            => \E p \in DOMAIN projects' :
                 /\ projects'[p].data = DEFAULT_PROJECT_DATA
                 /\ projects'[p].name = newProjectName
                 /\ Remove(projects', p) = projects]_vars

\* a project with the default template next to one whose sections have
\* been edited since
C15_Witness ==
    \E p, q \in DOMAIN projects :
       /\ projects[p].data = DEFAULT_PROJECT_DATA
       /\ projects[q].data.sparring.code = "const x = 1;"
       /\ projects[q].data.studio.input = "a"

\* C16: handleCreateProject with a name that is empty after trimming changes
\* nothing; with any other name it appends one project, which is then the
\* current project.
C16_CreateValidation ==
    [][handleCreateProject
         => IF Trim(newProjectName) = ""
            THEN UNCHANGED <<projects, currentProjectId, view, newProjectName,
                             isNewProjectModalOpen>>
            ELSE /\ Len(projects') = Len(projects) + 1
                 /\ currentProject(projects', currentProjectId')
                      = NewProject(newProjectName, now)]_vars

\* C17: making a project current, from the project menu or from a card of
\* the home view, leaves the collection (every project's data, name and
\* lastModified, and their order) and the storage as they were.
C17_SelectPure ==
    [][(\E i \in 1..MaxProjects : selectFromMenu(i) \/ onSelectProject(i))
         => (projects' = projects /\ storage' = storage)]_vars

\* the current project is older than another one: it was selected
C17_Witness ==
    \E p, q \in DOMAIN projects :
       /\ projects[p].id = currentProjectId
       /\ projects[p].id # projects[q].id
       /\ projects[p].lastModified < projects[q].lastModified

\* C18: a step that applies an update to a section of the current project
\* (the debounced onUpdate, or a studio reply's immediate one) leaves the
\* new payload in what the lookup of the project by id returns, with a
\* lastModified equal to the current time and not smaller than before.
C18_ImmediateVisibility ==
    /\ [][(TimerFire /\ Differs(buf, Data))
            => LET p == currentProject(projects', currentProjectId)
               IN  /\ p.data[buf.kind] = Payload(buf)
                   /\ p.lastModified = now
                   /\ p.lastModified
                        >= currentProject(projects, currentProjectId).lastModified]_vars
    /\ [][\A i \in DOMAIN calls :
            (handleRunSettled(i, TRUE, "R") /\ calls[i].pid = currentProjectId)
               => LET p == currentProject(projects', currentProjectId)
                  IN  /\ p.data.studio
                           = [messages |-> Append(NewMsgs(calls[i].history,
                                                          calls[i].message),
                                                  ModelMessage("R")),
                              input |-> "", settings |-> calls[i].settings]
                      /\ p.lastModified = now
                      /\ p.lastModified
                           >= currentProject(projects, currentProjectId).lastModified]_vars

\* the current project holds a prompt committed at the current time, later
\* than its creation
C18_Witness ==
    /\ buf.kind = "studio"
    /\ now > 0
    /\ currentProject(projects, currentProjectId).lastModified = now
    /\ currentProject(projects, currentProjectId).id # IdOf(now)
    /\ Data.input = "a"

\* C19: a step that changes the stored payload of a section of a project is
\* taken while that section's tool is the active view.
C19_ActiveToolOnly ==
    [][\A i \in DOMAIN projects, sec \in Tools :
         Stored(projects', projects[i].id, sec)
              # Stored(projects, projects[i].id, sec)
            => view = sec]_vars

\* C20: the one mounted tool view is the view the routing selects for the
\* current tool and project; a timer is pending only while a view is
\* mounted; and a view mounted by a tool switch or a project switch starts
\* with a timer of its own, the previous view's timer being cancelled.
C20_SingleBuffer ==
    /\ []([kind |-> buf.kind, key |-> buf.pid]
             = MountOf(screen, view, projects, currentProjectId))
    /\ [](timer # "idle" => buf.kind # "none")
    /\ [][(/\ buf'.kind # "none"
           /\ [kind |-> buf'.kind, key |-> buf'.pid]
                # [kind |-> buf.kind, key |-> buf.pid])
            => timer' = "armed"]_vars

\* the architect view of a project that is not the newest one: a tool switch
\* and a project switch have mounted it, and its timer is pending
C20_Witness ==
    /\ buf.kind = "architect"
    /\ timer = "armed"
    /\ \E q \in DOMAIN projects :
         /\ projects[q].id # currentProjectId
         /\ projects[q].lastModified
              > currentProject(projects, currentProjectId).lastModified

\* a step in which a call of one of the three tools settles, with a reply or
\* with an error
Settles(i) ==
    \/ \E ok \in BOOLEAN : handleActionSettled(i, ok, "R")
    \/ \E ok \in BOOLEAN : handleRunSettled(i, ok, "R")
    \/ \E ok \in BOOLEAN, text \in ArchTexts :
          generateArchitectureSettled(i, ok, text)

\* C21: a step puts at most one call in flight, only a user-invoked action
\* (sparring action, Run, Generate Blueprint) puts one in flight, and the
\* step in which a call settles (with a reply, an error or an unparsable
\* response) takes it out of the calls in flight and issues no other.
C21_NoRetry ==
    [][/\ Len(calls') <= Len(calls) + 1
       /\ Len(calls') > Len(calls)
            => (handleAction \/ generateArchitecture
                  \/ \E byKey \in BOOLEAN : handleRun(byKey))
       /\ \A i \in 1..MaxCalls : Settles(i) => Len(calls') = Len(calls) - 1]_vars

\* each tool has had a call that failed or could not be parsed, and no call
\* is in flight
C21_Witness ==
    /\ calls = <<>>
    /\ buf.kind = "sparring" /\ buf.output = "Error: E"
    /\ \E p \in DOMAIN projects :
         /\ projects[p].id = currentProjectId
         /\ Len(projects[p].data.studio.messages) = 2

\* the view's state shows a failure: an error output string, an error-flagged
\* last message, or a result that is neither absent nor a blueprint
HasFailure(b) ==
    CASE b.kind = "sparring"  -> b.output = SparringOutput(FALSE, "")
      [] b.kind = "studio"    -> /\ Len(b.messages) > 0
                                 /\ b.messages[Len(b.messages)].error
      [] b.kind = "architect" -> b.result \notin {NULL, JSONparse("{bp}")}

\* C22: when a call of the mounted view fails with a service error, the step
\* in which it fails leaves a failure marker in the view's copy of the
\* section: the sparring output, the studio transcript, the architect result.
C22_FailureRecorded ==
    [][\A i \in DOMAIN calls :
         (/\ calls[i].scope = "view"
          /\ \/ handleActionSettled(i, FALSE, "R")
             \/ handleRunSettled(i, FALSE, "R")
             \/ \E text \in ArchTexts : generateArchitectureSettled(i, FALSE, text))
            => HasFailure(buf')]_vars

\* C23: the step in which a blueprint reply cannot be parsed differs, in what
\* it leaves to the view that made the call, from the step in which the call
\* fails with a service error; and both leave the stored architect result of
\* the call's project as it was.
C23_MalformedDistinct ==
    [][\A i \in DOMAIN calls :
         /\ calls[i].scope = "view"
               => ~(/\ generateArchitectureSettled(i, TRUE, "garbage")
                    /\ generateArchitectureSettled(i, FALSE, "garbage"))
         /\ (/\ HasProject(projects, calls[i].pid)
             /\ \/ generateArchitectureSettled(i, TRUE, "garbage")
                \/ generateArchitectureSettled(i, FALSE, "garbage"))
               => Stored(projects', calls[i].pid, "architect").result
                    = Stored(projects, calls[i].pid, "architect").result]_vars

\* the ranges of RunSettings: temperature in tenths, topP in hundredths
InRange(settings) ==
    /\ settings.temperature \in 0..20
    /\ settings.topP \in 0..100
    /\ settings.topK \in Nat \ {0}
    /\ settings.maxOutputTokens \in Nat \ {0}

C25_ChatRequest ==
    [][((\E byKey \in BOOLEAN : handleRun(byKey)) /\ Len(calls') > Len(calls))
         => /\ calls'[Len(calls')].history = buf.messages
            /\ calls'[Len(calls')].message = buf.input
            /\ buf'.messages = Append(buf.messages, UserMessage(buf.input))]_vars

\* C26: the step that launches the Dashboard leaves, for a record that holds
\* projects, a collection of as many projects with the id of one whose
\* lastModified is maximal as the current id, and for an absent record the
\* empty collection and no current project.
C26_LoadOnMount ==
    [][onLaunch
         => IF storage.has /\ Len(ParseProjects(storage)) > 0
            THEN /\ Len(projects') = Len(ParseProjects(storage))
                 /\ \E p \in DOMAIN projects' :
                      /\ projects'[p].id = currentProjectId'
                      /\ \A q \in DOMAIN projects' :
                           projects'[q].lastModified <= projects'[p].lastModified
            ELSE projects' = <<>> /\ currentProjectId' = NULL]_vars

\* the Dashboard shows its home view with the project created first as the
\* current one, which was modified after the other was created
C26_Witness ==
    /\ screen = "dashboard" /\ view = "home" /\ ~isNewProjectModalOpen
    /\ storage = Stringify(projects)
    /\ Len(projects) = 2
    /\ currentProjectId = projects[1].id
    /\ projects[1].id = IdOf(0)
    /\ projects[2].id # IdOf(0)
    /\ projects[1].lastModified > projects[2].lastModified

\* C27: the step in which a project is created or a debounced update is
\* applied leaves the record equal to the serialised collection, which
\* parses to the collection; a record
\* that holds projects keeps holding projects; and leaving and launching the
\* Dashboard leave the record with the projects it held.
C27_RecordTracksMemory ==
    [][/\ ((handleCreateProject \/ TimerFire) /\ projects' # projects)
            => /\ storage' = Stringify(projects')
               /\ ParseProjects(storage') = projects'
       /\ (storage.has /\ Len(ParseProjects(storage)) > 0)
            => (storage'.has /\ Len(ParseProjects(storage')) > 0)
       /\ (onLaunch \/ onBack)
            => /\ storage'.has = storage.has
               /\ Len(ParseProjects(storage')) = Len(ParseProjects(storage))
               /\ \A i \in DOMAIN ParseProjects(storage) :
                    \E j \in DOMAIN ParseProjects(storage') :
                       ParseProjects(storage')[j] = ParseProjects(storage)[i]]_vars

\* the Dashboard has been left: its collection is gone and the record holds
\* two projects, one of them with an edit
C27_Witness ==
    /\ screen = "landing"
    /\ projects = <<>>
    /\ storage.has
    /\ Len(ParseProjects(storage)) = 2
    /\ \E i \in DOMAIN ParseProjects(storage) :
         ParseProjects(storage)[i].data.sparring.code = "const x = 1;"

\* C28: an edit of the mounted view that is still waiting for the debounce
\* timer when the user switches to another tool or to the home view is in
\* the project's stored section after the switch, and in the record when the
\* user leaves the Dashboard.
C28_NoLossOnToolSwitch ==
    [][(buf.kind # "none" /\ timer # "idle" /\ Differs(buf, Data))
         => /\ (\E v \in ViewMode : setView(v))
                 => Stored(projects', buf.pid, buf.kind) = Payload(buf)
            /\ onBack
                 => Stored(ParseProjects(storage'), buf.pid, buf.kind)
                      = Payload(buf)]_vars

\* the calls in flight that the mounted view made
OwnCalls(cs) == {i \in DOMAIN cs : cs[i].scope = "view"}

\* C29: no step leaves more than one call of the mounted view in flight, and
\* no step puts a call in flight while the mounted view's loading flag is
\* set.
C29_OneInFlight ==
    [][/\ Cardinality(OwnCalls(calls')) <= 1
       /\ (buf.kind # "none" /\ buf.loading) => Len(calls') <= Len(calls)]_vars

\* C30: the step in which a call of the mounted view settles, with a reply,
\* an error or an unparsable response, leaves the view's loading flag
\* cleared; the flag is set only while a call of the view is in flight; and
\* without an API client no call is put in flight and the flag stays clear.
C30_LoadingClears ==
    /\ []((buf.kind # "none" /\ buf.loading) => OwnCalls(calls) # {})
    /\ [](~ai => calls = <<>>)
    /\ [][\A i \in DOMAIN calls :
            (Settles(i) /\ calls[i].scope = "view") => ~buf'.loading]_vars

\* a Run has ended with a service error: the transcript shows the error,
\* no call is in flight and the loading flag is clear
C30_Witness ==
    /\ ai /\ calls = <<>>
    /\ buf.kind = "studio" /\ ~buf.loading
    /\ buf.messages = <<UserMessage("a"), ErrorMessage("Error.")>>
====
